---------------------------- MODULE Spec2Model ----------------------------
(***************************************************************************)
(* A model of socialsim: the measurement orchestrator of socialsim/run.py  *)
(* (run_measurements, TaskRunner) and the metric functions of              *)
(* socialsim/metrics/metrics.py.                                           *)
(*                                                                         *)
(* Python values are modelled as records of strings and integers.  A dict  *)
(* is a function from its keys; the order in which a configuration dict is *)
(* iterated is carried by the sequence the configuration is given as.      *)
(* Printing (verbose) and the unused timing/save arguments change no state *)
(* and are left out.                                                       *)
(***************************************************************************)
EXTENDS Integers, Sequences, FiniteSets, TLC

VARIABLES
    rmCall,      \* the arguments of the last direct call of run_measurements
    rmRet,       \* what that call produced
    runner,      \* the TaskRunner object (its fields)
    bundle,      \* what the last TaskRunner.__call__ / get_results returned
    history,     \* what has been executed so far on behalf of the TaskRunner
    mCall,       \* a call of a metric function: its name and arguments
    mRet         \* what that call produced (Pending before it ends)

vars == <<rmCall, rmRet, runner, bundle, history, mCall, mRet>>

(***************************************************************************)
(* Bounds of the model.                                                    *)
(***************************************************************************)
\* the largest number of (platform, measurement type) nodes of a
\* configuration passed to run_measurements directly
MaxNodes == 3

\* the largest number of nodes of a TaskRunner's configuration
MaxTaskNodes == 1

\* the largest number of TaskRunner.__call__ invocations followed
MaxCalls == 2

\* the largest length of a ranked list given to rbo_score
MaxRank == 3

\* the largest number of entries (rows) of a sequence given to r2
MaxRows == 2

(***************************************************************************)
(* Inputs.                                                                 *)
(***************************************************************************)
\* 'multi_platform' is the pseudo-platform of run.py:129 and :181
Platforms == {"twitter", "multi_platform"}

\* two names run.py:156-169 knows, and one it does not
TypeNames == {"social_activity", "social_structure", "user_defined"}

Injective(s) == \A i, j \in DOMAIN s : s[i] = s[j] => i = j

Min(a, b) == IF a < b THEN a ELSE b

\* the keys of one configuration[platform], in iteration order
TypeSeqs(n) ==
    {s \in UNION {[1..k -> TypeNames] : k \in 0..Min(n, Cardinality(TypeNames))} :
        Injective(s)}

RECURSIVE SumTypes(_, _)
SumTypes(c, i) == IF i = 0 THEN 0 ELSE Len(c[i].types) + SumTypes(c, i - 1)

\* configuration: platform -> measurement type -> parameters, as the sequence
\* of its items; configuration[p][m] itself is opaque and stands for its key
\* path
ConfigurationsUpTo(n) ==
    {c \in UNION {[1..k -> [platform : Platforms, types : TypeSeqs(n)]] :
                    k \in 0..Cardinality(Platforms)} :
        /\ \A i, j \in DOMAIN c : c[i].platform = c[j].platform => i = j
        /\ SumTypes(c, Len(c)) <= n}

PlatformsOf(c) == {c[i].platform : i \in DOMAIN c}

TypesOf(c, p) == UNION {{c[i].types[j] : j \in DOMAIN c[i].types} :
                          i \in {k \in DOMAIN c : c[k].platform = p}}

NodesOf(c) == {<<p, m>> \in Platforms \X TypeNames :
                  p \in PlatformsOf(c) /\ m \in TypesOf(c, p)}

\* a dataset is a DataFrame or (TaskRunner's precomputed ground truth) a str
Datasets(ids) == [id : ids, kind : {"DataFrame", "str"}]

(***************************************************************************)
(* What the collaborators do in one call: how subsetting ends for each     *)
(* platform and how construction and run end at each node.                 *)
(***************************************************************************)
SubsetOutcomes == {"ok", "filter_raises", "subset_for_test_raises"}

NodeOutcomes == {"ok", "init_raises", "run_raises"}

\* the outcomes Python allows for the statements of run.py:129-136
SubsetFeasible(dataset, platform, test, o) ==
    /\ o = "filter_raises" => platform # "multi_platform"
    \* str['platform'] is a TypeError
    /\ (dataset.kind = "str" /\ platform # "multi_platform") => o = "filter_raises"
    /\ o = "subset_for_test_raises" => test

Oracles(c, dataset, test) ==
    {o \in [subset : [PlatformsOf(c) -> SubsetOutcomes],
            node   : [NodesOf(c) -> NodeOutcomes]] :
        \A p \in PlatformsOf(c) : SubsetFeasible(dataset, p, test, o.subset[p])}

(***************************************************************************)
(* Values.                                                                 *)
(***************************************************************************)
NoException == "no exception"

\* every failure of a collaborator, of subsetting and of an unbound name is
\* an instance of a subclass of Exception
ExceptionClasses == {"TypeError", "KeyError", "UnboundLocalError",
                     "SubsetForTestError", "CollaboratorError"}

Unbound == "<unbound>"

NoData == [ds |-> "-", filter |-> "-", test |-> FALSE]

\* dataset_subset = [] (run.py:122)
EmptyList == [ds |-> "[]", filter |-> "-", test |-> FALSE]

NoRun == [cls |-> "-", platform |-> "-", data |-> NoData, conf |-> <<>>]

\* Python's None as a measurement result
None == [tag |-> "None", run |-> NoRun]

UnboundValue == [tag |-> Unbound, run |-> NoRun]

UnboundLog == [status |-> Unbound, error |-> "-", run |-> NoRun]

\* the pair measurement.run(**kwargs) returns is a function of the
\* collaborator that ran: its class and its constructor's arguments
RunResults(run) == [tag |-> "results", run |-> run]

RunLogs(run) == [status |-> "logs of run", error |-> "-", run |-> run]

EmptyDict == [k \in {} |-> None]

\* d.update({key: value})
DictUpdate(d, key, value) ==
    [k \in DOMAIN d \cup {key} |-> IF k = key THEN value ELSE d[k]]

(***************************************************************************)
(* run_measurements (run.py:103-235).                                      *)
(*                                                                         *)
(* st holds the function's local variables; st.raised is the exception     *)
(* that is propagating out of the function (NoException while none is),    *)
(* st.events the collaborators constructed and run so far.                 *)
(***************************************************************************)
\* a handler written "except TypeError", as those of metrics.py:121 are
ExceptTypeError(exc) == exc = "TypeError"

\* "except Exception as error" (run.py:141, 199, 213): the clause handles
\* every instance of a subclass of Exception
ExceptException(exc) == exc \in ExceptionClasses

\* the locals on entry (run.py:114-115); the others are not yet bound
Locals ==
    [Measurement         |-> Unbound,
     measurement_results |-> UnboundValue,
     measurement_logs    |-> UnboundLog,
     platform_results    |-> EmptyDict,
     platform_logs       |-> EmptyDict,
     results             |-> EmptyDict,
     logs                |-> EmptyDict,
     events              |-> <<>>,
     raised              |-> NoException]

\* the data the try block of run.py:123-139 leaves in dataset_subset
DatasetSubset(dataset, platform, test, outcome) ==
    LET filter == IF platform = "multi_platform" THEN "all" ELSE platform
    IN  CASE outcome = "ok" ->
                [ds |-> dataset.id, filter |-> filter, test |-> test]
          [] outcome = "filter_raises" -> EmptyList
          [] outcome = "subset_for_test_raises" ->
                [ds |-> dataset.id, filter |-> filter, test |-> FALSE]

SubsetError(dataset, outcome) ==
    CASE outcome = "ok" -> NoException
      [] outcome = "filter_raises" ->
            IF dataset.kind = "str" THEN "TypeError" ELSE "KeyError"
      [] outcome = "subset_for_test_raises" -> "SubsetForTestError"

SubsetFailedLog(platform, error) ==
    [status |-> "Failed to subset " \o platform, error |-> error, run |-> NoRun]

\* run.py:119-152: the subsetting of one platform and its handler, which
\* binds measurement_logs and falls through to the loop over the types
SubsetPlatform(st, dataset, platform, test, outcome) ==
    LET s0  == [st EXCEPT !.platform_results = EmptyDict,
                          !.platform_logs    = EmptyDict]
        exc == SubsetError(dataset, outcome)
    IN  IF exc = NoException THEN s0
        ELSE IF ExceptException(exc)
             THEN [s0 EXCEPT !.measurement_logs = SubsetFailedLog(platform, exc)]
             ELSE [s0 EXCEPT !.raised = exc]

\* run.py:156-169: an if/elif chain with no else; a name it does not know
\* leaves Measurement as it was
Resolve(measurement_type, Measurement) ==
    CASE measurement_type = "social_activity"      -> "SocialActivityMeasurements"
      [] measurement_type = "information_cascades" -> "InformationCascadeMeasurements"
      [] measurement_type = "social_structure"     -> "SocialStructureMeasurements"
      [] measurement_type = "cross_platform"       -> "CrossPlatformMeasurements"
      [] measurement_type = "multi_platform"       -> "MultiPlatformMeasurements"
      [] measurement_type = "recurrence"           -> "RecurrenceMeasurements"
      [] measurement_type = "persistent_groups"    -> "PersistentGroupsMeasurements"
      [] OTHER                                     -> Measurement

\* the collaborator run.py:181-186 constructs: the platform argument is
\* left out for 'multi_platform'
Collaborator(cls, platform, measurement_type, dataset_subset) ==
    [cls      |-> cls,
     platform |-> IF platform = "multi_platform" THEN "absent" ELSE platform,
     data     |-> dataset_subset,
     conf     |-> <<platform, measurement_type>>]

Event(op, platform, measurement_type, cls) ==
    [op |-> op, platform |-> platform, type |-> measurement_type, cls |-> cls]

InstantiateFailedLog(error) ==
    [status |-> "Failed to instantiate measurements object",
     error  |-> error, run |-> NoRun]

RunFailedLog(error) ==
    [status |-> "Measurements object failed to run.",
     error  |-> error, run |-> NoRun]

\* run.py:213-218: the outer handler
InstantiateFailed(st, exc) ==
    IF ExceptException(exc)
    THEN [st EXCEPT !.measurement_logs    = InstantiateFailedLog(exc),
                    !.measurement_results = None]
    ELSE [st EXCEPT !.raised = exc]

\* the inner handler without its "measurement_results = None"
RunFailedKeepsResults(st, exc) ==
    [st EXCEPT !.measurement_logs = RunFailedLog(exc)]

\* run.py:199-204: the inner handler; what it does not handle reaches the
\* outer one
RunFailed(st, exc) ==
    IF ExceptException(exc)
    THEN [st EXCEPT !.measurement_logs    = RunFailedLog(exc),
                    !.measurement_results = None]
    ELSE InstantiateFailed(st, exc)

\* run.py:197: the run returned its pair
RunReturned(st, run) ==
    [st EXCEPT !.measurement_results = RunResults(run),
               !.measurement_logs    = RunLogs(run)]

\* run.py:174-225: construct the collaborator and run it
InstantiateAndRun(st, platform, measurement_type, dataset_subset, outcome) ==
    IF st.Measurement = Unbound
    THEN \* reading the unbound local at run.py:182/185
         InstantiateFailed(st, "UnboundLocalError")
    ELSE LET cls == st.Measurement
             run == Collaborator(cls, platform, measurement_type, dataset_subset)
             s1  == [st EXCEPT !.events =
                        Append(@, Event("construct", platform, measurement_type, cls))]
             s2  == [s1 EXCEPT !.events =
                        Append(@, Event("run", platform, measurement_type, cls))]
         IN  CASE outcome = "init_raises" -> InstantiateFailed(s1, "CollaboratorError")
               [] outcome = "run_raises"  -> RunFailed(s2, "CollaboratorError")
               [] outcome = "ok"          -> RunReturned(s2, run)

\* the two updates made only for a node that produced results
LogTypeLevelOfSuccess(st, measurement_type) ==
    [st EXCEPT
        !.platform_results = DictUpdate(@, measurement_type, st.measurement_results),
        !.platform_logs    = IF st.measurement_results = None THEN @
                             ELSE DictUpdate(@, measurement_type, st.measurement_logs)]

\* run.py:228-229; reading a local that was never bound raises outside
\* every try block
LogTypeLevel(st, measurement_type) ==
    IF st.measurement_results = UnboundValue \/ st.measurement_logs = UnboundLog
    THEN [st EXCEPT !.raised = "UnboundLocalError"]
    ELSE [st EXCEPT
            !.platform_results = DictUpdate(@, measurement_type, st.measurement_results),
            !.platform_logs    = DictUpdate(@, measurement_type, st.measurement_logs)]

\* run.py:232-233
LogPlatformLevel(st, platform) ==
    [st EXCEPT !.results = DictUpdate(@, platform, st.platform_results),
               !.logs    = DictUpdate(@, platform, st.platform_logs)]

\* run.py:155-229: one pass of the loop over the measurement types
MeasurementType(st, platform, measurement_type, dataset_subset, outcome) ==
    LET s1 == [st EXCEPT !.Measurement = Resolve(measurement_type, @)]
        s2 == InstantiateAndRun(s1, platform, measurement_type, dataset_subset, outcome)
    IN  IF s2.raised # NoException THEN s2 ELSE LogTypeLevel(s2, measurement_type)

RECURSIVE TypeLoop(_, _, _, _, _, _)
TypeLoop(st, platform, types, j, dataset_subset, oracle) ==
    IF st.raised # NoException \/ j > Len(types) THEN st
    ELSE TypeLoop(MeasurementType(st, platform, types[j], dataset_subset,
                                  oracle.node[<<platform, types[j]>>]),
                  platform, types, j + 1, dataset_subset, oracle)

\* run.py:118-233: one pass of the loop over the platforms
Platform(st, dataset, item, test, oracle) ==
    LET platform == item.platform
        outcome  == oracle.subset[platform]
        s1 == SubsetPlatform(st, dataset, platform, test, outcome)
        s2 == TypeLoop(s1, platform, item.types, 1,
                       DatasetSubset(dataset, platform, test, outcome), oracle)
    IN  IF s1.raised # NoException THEN s1
        ELSE IF s2.raised # NoException THEN s2
        ELSE LogPlatformLevel(s2, platform)

RECURSIVE PlatformLoop(_, _, _, _, _, _)
PlatformLoop(st, dataset, configuration, i, test, oracle) ==
    IF st.raised # NoException \/ i > Len(configuration) THEN st
    ELSE PlatformLoop(Platform(st, dataset, configuration[i], test, oracle),
                      dataset, configuration, i + 1, test, oracle)

\* run_measurements: the pair it returns, or the exception it raises
run_measurements(dataset, configuration, test, oracle) ==
    LET st == PlatformLoop(Locals, dataset, configuration, 1, test, oracle)
    IN  [raised  |-> st.raised,
         results |-> IF st.raised = NoException THEN st.results ELSE EmptyDict,
         logs    |-> IF st.raised = NoException THEN st.logs ELSE EmptyDict,
         events  |-> st.events]


(***************************************************************************)
(* Direct calls of run_measurements.                                       *)
(***************************************************************************)
NoOracle == [subset |-> <<>>, node |-> <<>>]

NoCall == [called |-> FALSE, dataset |-> [id |-> "-", kind |-> "-"],
           configuration |-> <<>>, test |-> FALSE, oracle |-> NoOracle]

NoReturn == [raised |-> NoException, results |-> EmptyDict,
             logs |-> EmptyDict, events |-> <<>>]

NoRunner == [constructed |-> FALSE, ground_truth |-> [id |-> "-", kind |-> "-"],
             configuration |-> <<>>, test |-> FALSE,
             ground_truth_results |-> EmptyDict, ground_truth_logs |-> EmptyDict]

NoBundle == [from |-> "-", raised |-> NoException,
             simulation_results |-> EmptyDict, ground_truth_results |-> EmptyDict,
             metrics |-> EmptyDict,
             simulation_logs |-> EmptyDict, ground_truth_logs |-> EmptyDict,
             metrics_logs |-> EmptyDict]

\* passes: the datasets run_measurements was given, in order
NoHistory == [passes |-> <<>>, loads |-> 0, calls |-> 0,
              at_construction |-> [results |-> EmptyDict, logs |-> EmptyDict]]

\* no metric function is called
NoMetricCall == [fn |-> "-"]

\* a metric call that has not ended
Pending == [kind |-> "pending"]

InitRun ==
    /\ rmCall = NoCall
    /\ rmRet = NoReturn
    /\ runner = NoRunner
    /\ bundle = NoBundle
    /\ history = NoHistory
    /\ mCall = NoMetricCall
    /\ mRet = Pending

\* results, logs = run_measurements(dataset, configuration, metadata, ...);
\* the function keeps nothing between two calls, so one call is followed
CallRunMeasurements ==
    /\ ~rmCall.called
    /\ \E configuration \in ConfigurationsUpTo(MaxNodes),
       dataset \in Datasets({"dataset"}), test \in BOOLEAN :
         \E oracle \in Oracles(configuration, dataset, test) :
            /\ rmCall' = [called |-> TRUE, dataset |-> dataset,
                          configuration |-> configuration, test |-> test,
                          oracle |-> oracle]
            /\ rmRet' = run_measurements(dataset, configuration, test, oracle)
            /\ UNCHANGED <<runner, bundle, history, mCall, mRet>>

NextRun == CallRunMeasurements

SpecRun == InitRun /\ [][NextRun]_vars


(***************************************************************************)
(* TaskRunner (run.py:29-100).                                             *)
(***************************************************************************)
\* the ground_truth argument: a raw dataset, a str naming stored
\* measurements, or the class str itself
GroundTruths == [id : {"ground_truth"}, kind : {"DataFrame", "str", "class str"}]

SimulationDatasets == [id : {"simulation"}, kind : {"DataFrame"}]

\* the test argument of the TaskRunners followed (subset_for_test and its
\* failures are followed in the direct calls of run_measurements)
TaskTests == {FALSE}

\* "ground_truth is str" (run.py:51): the identity of the argument and the
\* class str
IsStr(ground_truth) == ground_truth.kind = "class str"

\* load_measurements (socialsim/load.py): the stored pair
StoredRun == [cls |-> "stored", platform |-> "-", data |-> NoData, conf |-> <<>>]

load_measurements(name) ==
    [results |-> [stored |-> [stored |-> RunResults(StoredRun)]],
     logs    |-> [stored |-> [stored |-> RunLogs(StoredRun)]]]

\* Metrics(simulation, ground_truth, configuration).run(...) (the Metrics
\* Engine): a nested collection of metric results and one of logs, functions
\* of the two result collections, neither of which it changes
MetricsRun(simulation, ground_truth, configuration) ==
    [results |-> [of |-> [simulation |-> simulation, ground_truth |-> ground_truth]],
     logs    |-> [of |-> [simulation |-> simulation, ground_truth |-> ground_truth]]]

\* run_metrics (run.py:238-257)
run_metrics(simulation, ground_truth, configuration) ==
    MetricsRun(simulation, ground_truth, configuration)

\* TaskRunner.__init__ (run.py:30-59): the object, and what was executed
TaskRunnerInit(ground_truth, configuration, test, oracle) ==
    LET loaded == IsStr(ground_truth)
        temp   == IF loaded THEN load_measurements(ground_truth)
                  ELSE run_measurements(ground_truth, configuration, test, oracle)
    IN  [self   |-> [constructed          |-> TRUE,
                     ground_truth         |-> ground_truth,
                     configuration        |-> configuration,
                     test                 |-> test,
                     ground_truth_results |-> temp.results,
                     ground_truth_logs    |-> temp.logs],
         passes |-> IF loaded THEN <<>> ELSE <<ground_truth.id>>,
         loads  |-> IF loaded THEN 1 ELSE 0]

\* a __call__ that measures the ground truth again
TaskRunnerCallRecomputes(self, dataset, oracle) ==
    LET sim == run_measurements(dataset, self.configuration, self.test, oracle)
        gt  == run_measurements(self.ground_truth, self.configuration, self.test,
                                oracle)
        met == run_metrics(sim.results, gt.results, self.configuration)
    IN  [bundle |-> [from                 |-> "__call__",
                     raised               |-> sim.raised,
                     simulation_results   |-> sim.results,
                     ground_truth_results |-> gt.results,
                     metrics              |-> met.results,
                     simulation_logs      |-> sim.logs,
                     ground_truth_logs    |-> gt.logs,
                     metrics_logs         |-> met.logs],
         passes |-> <<dataset.id, self.ground_truth.id>>]

\* TaskRunner.__call__ (run.py:62-97): the two bundles, and what was executed
TaskRunnerCall(self, dataset, oracle) ==
    LET sim == run_measurements(dataset, self.configuration, self.test, oracle)
        met == run_metrics(sim.results, self.ground_truth_results,
                           self.configuration)
    IN  [bundle |-> [from                 |-> "__call__",
                     raised               |-> sim.raised,
                     simulation_results   |-> sim.results,
                     ground_truth_results |-> self.ground_truth_results,
                     metrics              |-> met.results,
                     simulation_logs      |-> sim.logs,
                     ground_truth_logs    |-> self.ground_truth_logs,
                     metrics_logs         |-> met.logs],
         passes |-> <<dataset.id>>]

\* TaskRunner.get_results (run.py:99-100)
TaskRunnerGetResults(self) ==
    [NoBundle EXCEPT !.from                 = "get_results",
                     !.ground_truth_results = self.ground_truth_results,
                     !.ground_truth_logs    = self.ground_truth_logs]

InitTask == InitRun

\* runner = TaskRunner(ground_truth, configuration, metadata, test)
Construct ==
    /\ ~runner.constructed
    /\ \E ground_truth \in GroundTruths,
          configuration \in ConfigurationsUpTo(MaxTaskNodes), test \in TaskTests :
         \E oracle \in IF IsStr(ground_truth) THEN {NoOracle}
                       ELSE Oracles(configuration, ground_truth, test) :
            LET new == TaskRunnerInit(ground_truth, configuration, test, oracle)
            IN  /\ runner' = new.self
                /\ history' = [passes |-> new.passes, loads |-> new.loads,
                               calls |-> 0,
                               at_construction |->
                                   [results |-> new.self.ground_truth_results,
                                    logs    |-> new.self.ground_truth_logs]]
                /\ UNCHANGED <<rmCall, rmRet, bundle, mCall, mRet>>

\* results, logs = runner(dataset)
Call ==
    /\ runner.constructed
    /\ history.calls < MaxCalls
    /\ \E dataset \in SimulationDatasets :
         \E oracle \in Oracles(runner.configuration, dataset, runner.test) :
            LET out == TaskRunnerCall(runner, dataset, oracle)
            IN  /\ bundle' = out.bundle
                /\ history' = [history EXCEPT !.passes = @ \o out.passes,
                                              !.calls  = @ + 1]
                /\ UNCHANGED <<rmCall, rmRet, runner, mCall, mRet>>

\* runner.get_results()
GetResults ==
    /\ runner.constructed
    /\ bundle' = TaskRunnerGetResults(runner)
    /\ UNCHANGED <<rmCall, rmRet, runner, history, mCall, mRet>>

NextTask == Construct \/ Call \/ GetResults

SpecTask == InitTask /\ [][NextTask]_vars


(***************************************************************************)
(* The metric functions (metrics/metrics.py).                              *)
(*                                                                         *)
(* A float is modelled as the exact rational it stands for, a record       *)
(* [num, den] in lowest terms with den > 0.  What a function gives is      *)
(* Number(q), NoneResult (Python's None) or Raised(exception).             *)
(***************************************************************************)
Abs(a) == IF a < 0 THEN -a ELSE a

RECURSIVE Gcd(_, _)
Gcd(a, b) == IF b = 0 THEN Abs(a) ELSE Gcd(b, a % b)

Rat(n, d) ==
    LET g == Gcd(Abs(n), Abs(d))
        sgn == IF d < 0 THEN -1 ELSE 1
    IN  [num |-> sgn * (n \div g), den |-> sgn * (d \div g)]

RatAdd(x, y) ==
    LET l == (x.den \div Gcd(x.den, y.den)) * y.den
    IN  Rat(x.num * (l \div x.den) + y.num * (l \div y.den), l)

RatNeg(x) == [num |-> -x.num, den |-> x.den]

RatSub(x, y) == RatAdd(x, RatNeg(y))

RatMul(x, y) ==
    LET a == Rat(x.num, y.den)
        b == Rat(y.num, x.den)
    IN  Rat(a.num * b.num, a.den * b.den)

\* x / y for y # 0
RatDiv(x, y) == RatMul(x, Rat(y.den, y.num))

RatLess(x, y) == RatSub(x, y).num < 0

RECURSIVE RatPow(_, _)
RatPow(x, n) == IF n = 0 THEN Rat(1, 1) ELSE RatMul(x, RatPow(x, n - 1))

Zero == Rat(0, 1)

One == Rat(1, 1)

RECURSIVE RatSum(_)
RatSum(seq) == IF seq = <<>> THEN Zero ELSE RatAdd(Head(seq), RatSum(Tail(seq)))

Number(q) == [kind |-> "number", num |-> q.num, den |-> q.den]

NoneResult == [kind |-> "None"]

Raised(exc) == [kind |-> "raise", exc |-> exc]

ValueOf(r) == [num |-> r.num, den |-> r.den]

(***************************************************************************)
(* rbo_score (metrics.py:356-415).                                         *)
(***************************************************************************)
\* the entities ranked
Entities == {1, 2, 3}

RankedLists == UNION {[1..n -> Entities] : n \in 0..MaxRank}

\* how a ranked list is passed: a DataFrame of an entity and a 'value'
\* column, a DataFrame whose index holds the entities, a plain list
RankShapes == {"entity and value columns", "entities in the index", "list"}

\* the values of p followed; 0.95 is the default
Probabilities == {Rat(1, 2), Rat(9, 10), Rat(19, 20)}

\* a[:i]
Prefix(a, i) == SubSeq(a, 1, Min(i, Len(a)))

Elements(a) == {a[i] : i \in DOMAIN a}

\* Python's a < b on two lists of numbers
RECURSIVE ListLess(_, _)
ListLess(a, b) ==
    IF a = <<>> THEN b # <<>>
    ELSE IF b = <<>> THEN FALSE
    ELSE IF Head(a) # Head(b) THEN Head(a) < Head(b)
    ELSE ListLess(Tail(a), Tail(b))

\* sorted([(len(ground_truth), ground_truth), (len(simulation), simulation)])
\* (metrics.py:391): the stable sort swaps the pair only when the second
\* tuple is less than the first
SortedByLength(ground_truth, simulation) ==
    IF \/ Len(simulation) < Len(ground_truth)
       \/ Len(simulation) = Len(ground_truth) /\ ListLess(simulation, ground_truth)
    THEN <<simulation, ground_truth>>
    ELSE <<ground_truth, simulation>>

\* x_d[i] (metrics.py:402-406)
Overlap(L, S, i) == Cardinality(Elements(Prefix(L, i)) \cap Elements(Prefix(S, i)))

\* the loop of metrics.py:409-410 up to rank i
RECURSIVE Accumulate(_, _, _, _)
Accumulate(L, S, p, i) ==
    IF i = 0 THEN Zero
    ELSE RatAdd(Accumulate(L, S, p, i - 1),
                RatMul(Rat(Overlap(L, S, i), i), RatPow(p, i - 1)))

\* the total scaled by p instead of 1 - p
ScaleByP(total, p) == RatMul(total, p)

\* rbo_score = rbo_score * (1 - p) (metrics.py:413)
Scale(total, p) == RatMul(total, RatSub(One, p))

\* metrics.py:391-415, on the two lists of entities
RboOfLists(ground_truth, simulation, p) ==
    LET sl == SortedByLength(ground_truth, simulation)
        S  == sl[1]
        L  == sl[2]
        s  == Len(S)
    IN  IF s = 0 THEN Number(Zero)
        ELSE Number(Scale(Accumulate(L, S, p, s), p))

\* rbo_score(ground_truth, simulation, p); both arguments are passed in the
\* same shape
rbo_score(ground_truth, simulation, p) ==
    IF simulation.shape = "None" THEN NoneResult
    ELSE IF ground_truth.shape = "list"
         THEN \* ground_truth.columns (metrics.py:381)
              Raised("AttributeError")
         ELSE RboOfLists(ground_truth.items, simulation.items, p)

RankInput(shape, items) == [shape |-> shape, items |-> items]

NoneInput == [shape |-> "None", items |-> <<>>]

InitRbo ==
    /\ rmCall = NoCall
    /\ rmRet = NoReturn
    /\ runner = NoRunner
    /\ bundle = NoBundle
    /\ history = NoHistory
    /\ \E shape \in RankShapes, g \in RankedLists, p \in Probabilities :
          \E sim \in {RankInput(shape, x) : x \in RankedLists} \cup {NoneInput} :
             mCall = [fn |-> "rbo_score", ground_truth |-> RankInput(shape, g),
                      simulation |-> sim, p |-> p]
    /\ mRet = Pending

CallRboScore ==
    /\ mCall.fn = "rbo_score"
    /\ mRet = Pending
    /\ mRet' = rbo_score(mCall.ground_truth, mCall.simulation, mCall.p)
    /\ UNCHANGED <<rmCall, rmRet, runner, bundle, history, mCall>>

NextRbo == CallRboScore

SpecRbo == InitRbo /\ [][NextRbo]_vars


(***************************************************************************)
(* absolute_difference and absolute_percentage_error (metrics.py:113-138). *)
(***************************************************************************)
\* the scalars passed: numbers, str objects (of a number, or not), None, a
\* list
IntValue(n) == [type |-> "int", n |-> n, text |-> "-"]

Str(text, n) == [type |-> "str", n |-> n, text |-> text]

NoneValue == [type |-> "NoneType", n |-> 0, text |-> "-"]

ListValue == [type |-> "list", n |-> 0, text |-> "-"]

\* the str objects float() converts, with their values
NumericStrings == {Str("2", 2), Str("0", 0)}

Scalars == {IntValue(n) : n \in {-1, 0, 2}} \cup NumericStrings
              \cup {Str("x", 0), NoneValue, ListValue}

\* the exception float(v) raises, if any
FloatError(v) ==
    CASE v.type = "int"      -> NoException
      [] v \in NumericStrings -> NoException
      [] v.type = "str"      -> "ValueError"
      [] OTHER               -> "TypeError"

\* float(v) when it raises nothing
Float(v) == Rat(v.n, 1)

\* the exception of the first of the calls of float, in the order Python
\* evaluates them
FirstError(values) ==
    LET errors == SelectSeq([i \in DOMAIN values |-> FloatError(values[i])],
                            LAMBDA e : e # NoException)
    IN  IF errors = <<>> THEN NoException ELSE Head(errors)

\* "except TypeError" (metrics.py:121, 136)
ExceptTypeErrorClause(exc) ==
    IF exc = "TypeError" THEN NoneResult ELSE Raised(exc)

\* absolute_difference(ground_truth, simulation)
absolute_difference(ground_truth, simulation) ==
    LET exc == FirstError(<<simulation, ground_truth>>)
    IN  IF exc # NoException THEN ExceptTypeErrorClause(exc)
        ELSE LET d == RatSub(Float(simulation), Float(ground_truth))
             IN  Number(Rat(Abs(d.num), d.den))

\* x / 0.0 for a numpy float x: inf, -inf or nan with a warning
NumpyDivisionByZero(x) ==
    IF x.num = 0 THEN [kind |-> "nan"] ELSE [kind |-> "inf"]

\* absolute_percentage_error(ground_truth, simulation)
absolute_percentage_error(ground_truth, simulation) ==
    IF ground_truth.type = "int" /\ ground_truth.n = 0
    THEN NoneResult
    ELSE LET exc == FirstError(<<simulation, ground_truth, ground_truth>>)
         IN  IF exc # NoException THEN ExceptTypeErrorClause(exc)
             ELSE LET d == RatSub(Float(simulation), Float(ground_truth))
                      n == RatMul(Rat(100, 1), Rat(Abs(d.num), d.den))
                  IN  IF Float(ground_truth) = Zero THEN NumpyDivisionByZero(n)
                      ELSE Number(RatDiv(n, Float(ground_truth)))

ScalarMetrics == {"absolute_difference", "absolute_percentage_error"}

InitScalar ==
    /\ rmCall = NoCall
    /\ rmRet = NoReturn
    /\ runner = NoRunner
    /\ bundle = NoBundle
    /\ history = NoHistory
    /\ mCall \in [fn : ScalarMetrics, ground_truth : Scalars, simulation : Scalars]
    /\ mRet = Pending

CallAbsoluteDifference ==
    /\ mCall.fn = "absolute_difference"
    /\ mRet = Pending
    /\ mRet' = absolute_difference(mCall.ground_truth, mCall.simulation)
    /\ UNCHANGED <<rmCall, rmRet, runner, bundle, history, mCall>>

CallAbsolutePercentageError ==
    /\ mCall.fn = "absolute_percentage_error"
    /\ mRet = Pending
    /\ mRet' = absolute_percentage_error(mCall.ground_truth, mCall.simulation)
    /\ UNCHANGED <<rmCall, rmRet, runner, bundle, history, mCall>>

NextScalar == CallAbsoluteDifference \/ CallAbsolutePercentageError

SpecScalar == InitScalar /\ [][NextScalar]_vars


(***************************************************************************)
(* join_dfs (metrics.py:79-106) and r2 (metrics.py:466-502).               *)
(*                                                                         *)
(* A measurement is a plain list of values or a DataFrame, a sequence of   *)
(* rows of one key column and the 'value' column.  A value is a finite     *)
(* number or NaN.                                                          *)
(***************************************************************************)
Finite(n) == [fin |-> TRUE, v |-> n]

NaN == [fin |-> FALSE, v |-> 0]

Values == {Finite(1), Finite(2), NaN}

Keys == {1, 2}

Rows == [key : Keys, value : Values]

SeqsUpTo(S, n) == UNION {[1..k -> S] : k \in 0..n}

Measurement(shape, items) == [shape |-> shape, items |-> items]

NoneMeasurement == [shape |-> "None", items |-> <<>>]

JoinKinds == {"inner", "outer"}

RECURSIVE Flatten(_)
Flatten(seqs) == IF seqs = <<>> THEN <<>> ELSE Head(seqs) \o Flatten(Tail(seqs))

\* DataFrame.merge(..., on=<the key column>, suffixes=('_gt','_sim'), how=join)
Merge(ground_truth, simulation, join) ==
    LET HasKey(frame, k) == \E i \in DOMAIN frame : frame[i].key = k
        Matched(g) ==
            LET m == SelectSeq(simulation, LAMBDA r : r.key = g.key)
            IN  [j \in DOMAIN m |->
                    [key |-> g.key, value_gt |-> g.value, value_sim |-> m[j].value]]
        LeftOnly(g) ==
            IF HasKey(simulation, g.key) \/ join \notin {"outer", "left"} THEN <<>>
            ELSE <<[key |-> g.key, value_gt |-> g.value, value_sim |-> NaN]>>
        RightOnly(r) ==
            IF HasKey(ground_truth, r.key) \/ join \notin {"outer", "right"} THEN <<>>
            ELSE <<[key |-> r.key, value_gt |-> NaN, value_sim |-> r.value]>>
    IN  Flatten([i \in DOMAIN ground_truth |->
                    Matched(ground_truth[i]) \o LeftOnly(ground_truth[i])])
        \o Flatten([j \in DOMAIN simulation |-> RightOnly(simulation[j])])

RECURSIVE InsertByKey(_, _)
InsertByKey(sorted, r) ==
    IF sorted = <<>> THEN <<r>>
    ELSE IF r.key < Head(sorted).key THEN <<r>> \o sorted
    ELSE <<Head(sorted)>> \o InsertByKey(Tail(sorted), r)

\* df.sort_values(<the key column>)
RECURSIVE SortValues(_)
SortValues(df) ==
    IF df = <<>> THEN <<>>
    ELSE InsertByKey(SortValues(SubSeq(df, 1, Len(df) - 1)), df[Len(df)])

\* df.fillna(fill_value) for a number fill_value
FillNa(df, fill_value) ==
    LET Fill(x) == IF x.fin THEN x ELSE Finite(fill_value)
    IN  [i \in DOMAIN df |-> [key |-> df[i].key,
                             value_gt |-> Fill(df[i].value_gt),
                             value_sim |-> Fill(df[i].value_sim)]]

\* join_dfs(ground_truth, simulation, join, fill_value)
join_dfs(ground_truth, simulation, join, fill_value) ==
    FillNa(SortValues(Merge(ground_truth, simulation, join)), fill_value)

RECURSIVE Sum(_)
Sum(seq) == IF seq = <<>> THEN 0 ELSE Head(seq) + Sum(Tail(seq))

\* np.sqrt(q): a number when q is the square of a rational
Sqrt(q) ==
    LET Root(n) == {r \in 0..n : r * r = n}
    IN  IF Root(q.num) # {} /\ Root(q.den) # {}
        THEN Number(Rat(CHOOSE r \in Root(q.num) : TRUE,
                        CHOOSE r \in Root(q.den) : TRUE))
        ELSE [kind |-> "sqrt of", num |-> q.num, den |-> q.den]

\* np.nan_to_num(a)
NanToNum(a) == [i \in DOMAIN a |-> IF a[i].fin THEN a[i].v ELSE 0]

\* np.sqrt(((np.asarray(a) - np.asarray(b)) ** 2).mean()): arrays of one
\* length, or one of them of length 1 (broadcast)
RootMeanSquare(a, b) ==
    LET n == IF Len(a) > Len(b) THEN Len(a) ELSE Len(b)
        At(x, i) == IF Len(x) = 1 THEN x[1] ELSE x[i]
    IN  IF Len(a) # Len(b) /\ Len(a) # 1 /\ Len(b) # 1
        THEN Raised("ValueError")
        ELSE Sqrt(Rat(Sum([i \in 1..n |-> (At(a, i) - At(b, i)) * (At(a, i) - At(b, i))]),
                      n))

\* sklearn.metrics.r2_score(y_true, y_pred) on at least two samples:
\* 1 - SS_res / SS_tot, and for SS_tot = 0: 1.0 if SS_res = 0, 0.0 if not
r2_score(y_true, y_pred) ==
    LET n      == Len(y_true)
        ss_res == Sum([i \in 1..n |-> (y_true[i] - y_pred[i]) * (y_true[i] - y_pred[i])])
        \* n * SS_tot
        n_tot  == n * Sum([i \in 1..n |-> y_true[i] * y_true[i]])
                    - Sum(y_true) * Sum(y_true)
    IN  IF n_tot # 0 THEN Number(RatSub(One, Rat(n * ss_res, n_tot)))
        ELSE IF ss_res # 0 THEN Number(Zero)
        ELSE Number(One)

\* frame[np.isfinite(frame.value)]
FiniteRows(frame) == SelectSeq(frame, LAMBDA r : r.value.fin)

\* the statements of metrics.py:485-492 in the block structure their
\* indentation has with a tab reaching the next multiple of 8 columns (the
\* reading of Python 2; Python 3 rejects the mix of tabs and spaces)
R2OfLists(ground_truth, simulation) ==
    RootMeanSquare(NanToNum(ground_truth), NanToNum(simulation))

\* metrics.py:494-502
R2OfFrames(ground_truth, simulation, join, fill_value) ==
    LET df == join_dfs(FiniteRows(ground_truth), FiniteRows(simulation),
                       join, fill_value)
    IN  IF Len(df) <= 1 THEN NoneResult
        ELSE r2_score([i \in DOMAIN df |-> df[i].value_gt.v],
                      [i \in DOMAIN df |-> df[i].value_sim.v])

\* r2(ground_truth, simulation, join, fill_value); both arguments are passed
\* in the same shape
r2(ground_truth, simulation, join, fill_value) ==
    IF simulation.shape = "None" \/ ground_truth.shape = "None" THEN NoneResult
    ELSE IF Len(simulation.items) = 0 \/ Len(ground_truth.items) = 0 THEN NoneResult
    ELSE IF ground_truth.shape = "list"
         THEN R2OfLists(ground_truth.items, simulation.items)
         ELSE R2OfFrames(ground_truth.items, simulation.items, join, fill_value)

MeasurementPairs ==
    {<<Measurement("list", g), Measurement("list", x)>> :
        <<g, x>> \in SeqsUpTo(Values, MaxRows) \X SeqsUpTo(Values, MaxRows)}
    \cup {<<Measurement("DataFrame", g), Measurement("DataFrame", x)>> :
        <<g, x>> \in SeqsUpTo(Rows, MaxRows) \X SeqsUpTo(Rows, MaxRows)}
    \cup {<<NoneMeasurement, Measurement("list", <<Finite(1)>>)>>,
          <<Measurement("list", <<Finite(1)>>), NoneMeasurement>>,
          <<NoneMeasurement, NoneMeasurement>>}

InitR2 ==
    /\ rmCall = NoCall
    /\ rmRet = NoReturn
    /\ runner = NoRunner
    /\ bundle = NoBundle
    /\ history = NoHistory
    /\ \E pair \in MeasurementPairs, join \in JoinKinds :
          /\ pair[1].shape # "DataFrame" => join = "inner"
          /\ mCall = [fn |-> "r2", ground_truth |-> pair[1], simulation |-> pair[2],
                      join |-> join, fill_value |-> 0]
    /\ mRet = Pending

CallR2 ==
    /\ mCall.fn = "r2"
    /\ mRet = Pending
    /\ mRet' = r2(mCall.ground_truth, mCall.simulation, mCall.join, mCall.fill_value)
    /\ UNCHANGED <<rmCall, rmRet, runner, bundle, history, mCall>>

NextR2 == CallR2

SpecR2 == InitR2 /\ [][NextR2]_vars


(***************************************************************************)
(* pearson (metrics.py:505-523).                                           *)
(***************************************************************************)
\* the 'value' columns of a joined frame, as sequences of integers
ValueGt(df) == [i \in DOMAIN df |-> df[i].value_gt.v]

ValueSim(df) == [i \in DOMAIN df |-> df[i].value_sim.v]

\* the correlation coefficient r of x and y, exactly: cov / sqrt(var_x * var_y),
\* a rational when var_x * var_y is a square, nan when an input is constant
Coefficient(x, y) ==
    LET n   == Len(x)
        cov == n * Sum([i \in 1..n |-> x[i] * y[i]]) - Sum(x) * Sum(y)
        vx  == n * Sum([i \in 1..n |-> x[i] * x[i]]) - Sum(x) * Sum(x)
        vy  == n * Sum([i \in 1..n |-> y[i] * y[i]]) - Sum(y) * Sum(y)
        root == Sqrt(Rat(vx * vy, 1))
    IN  IF vx = 0 \/ vy = 0 THEN [kind |-> "nan"]
        ELSE IF root.kind = "number" THEN Number(Rat(cov, root.num))
        ELSE [kind |-> "quotient by sqrt of", num |-> cov, den |-> vx * vy]

\* the two-sided p-value scipy derives from r and the number of samples
PValue(r, n) == [kind |-> "p-value", of |-> r, n |-> n]

\* a Python tuple
Tuple(items) == [kind |-> "tuple", items |-> items]

\* scipy.stats.pearsonr(x, y): the pair (r, p-value); fewer than two samples
\* raise ValueError
pearsonr(x, y) ==
    IF Len(x) < 2 THEN Raised("ValueError")
    ELSE Tuple(<<Coefficient(x, y), PValue(Coefficient(x, y), Len(x))>>)

\* pearson(ground_truth, simulation, join, fill_value)
pearson(ground_truth, simulation, join, fill_value) ==
    IF ground_truth.shape # "DataFrame"
    THEN \* ground_truth.merge (metrics.py:94)
         Raised("AttributeError")
    ELSE IF simulation.shape # "DataFrame"
    THEN \* merge rejects a right operand that is no DataFrame
         Raised("TypeError")
    ELSE LET df == join_dfs(ground_truth.items, simulation.items, join, fill_value)
         IN  IF Len(df) > 0 THEN pearsonr(ValueGt(df), ValueSim(df))
             ELSE NoneResult

FramePairs ==
    {<<Measurement("DataFrame", g), Measurement("DataFrame", x)>> :
        <<g, x>> \in SeqsUpTo(Rows, MaxRows) \X SeqsUpTo(Rows, MaxRows)}
    \cup {<<NoneMeasurement, Measurement("DataFrame", <<>>)>>,
          <<Measurement("DataFrame", <<>>), NoneMeasurement>>}

InitPearson ==
    /\ rmCall = NoCall
    /\ rmRet = NoReturn
    /\ runner = NoRunner
    /\ bundle = NoBundle
    /\ history = NoHistory
    /\ \E pair \in FramePairs, join \in JoinKinds :
          mCall = [fn |-> "pearson", ground_truth |-> pair[1], simulation |-> pair[2],
                   join |-> join, fill_value |-> 0]
    /\ mRet = Pending

CallPearson ==
    /\ mCall.fn = "pearson"
    /\ mRet = Pending
    /\ mRet' = pearson(mCall.ground_truth, mCall.simulation, mCall.join, mCall.fill_value)
    /\ UNCHANGED <<rmCall, rmRet, runner, bundle, history, mCall>>

NextPearson == CallPearson

SpecPearson == InitPearson /\ [][NextPearson]_vars


(***************************************************************************)
(* rbo_for_te (metrics.py:325-353).                                        *)
(*                                                                         *)
(* A measurement maps idx to a dict from group to the list of the          *)
(* (entity, value) tuples ranked in the group.  An entity is a sequence of *)
(* one or two strings (a name or a pair of names); only the entities of a  *)
(* ranked list are followed.                                               *)
(***************************************************************************)
MaxGroupRank == 2

GroupEntities == {<<"x">>, <<"x", "y">>}

Groups == {1, 2}

RankedGroups == UNION {[1..n -> GroupEntities] : n \in 0..MaxGroupRank}

\* ground_truth[idx], simulation[idx]: dicts from group to ranked list
GroupTables == UNION {[G -> RankedGroups] : G \in SUBSET Groups}

\* the simulation measurement: empty, or holding a table under idx, or
\* nonempty without the key idx
SimulationShapes == {"empty", "has idx", "lacks idx"}

\* the values of ct followed
MinCounts == {1, 2}

\* '-'.join(list(tups[0])) if len(tups[0]) == 2 else tups[0]
\* (metrics.py:340, 347)
EntityKey(e) == IF Len(e) = 2 THEN e[1] \o "-" \o e[2] ELSE e[1]

EntityKeys(ranked) == [i \in DOMAIN ranked |-> EntityKey(ranked[i])]

\* the keys of a dict in the order the loop visits them
RECURSIVE KeysInOrder(_)
KeysInOrder(G) ==
    IF G = {} THEN <<>>
    ELSE LET g == CHOOSE x \in G : \A y \in G : x <= y
         IN  <<g>> \o KeysInOrder(G \ {g})

\* one pass of the loop body (metrics.py:340-348) from the locals st
GroupPass(st, ground_truth, simulation, grp, wt, ct) ==
    LET ent_gt == EntityKeys(ground_truth[grp])
    IN  IF st.raised # NoException THEN st
        ELSE IF Len(ent_gt) < ct THEN st
        ELSE IF grp \notin DOMAIN simulation THEN st
        ELSE LET ent_sm == EntityKeys(simulation[grp])
                 score  == rbo_score(RankInput("list", ent_gt),
                                     RankInput("list", ent_sm), wt)
             IN  IF score.kind = "raise"
                 THEN [st EXCEPT !.count = st.count + 1, !.raised = score.exc]
                 ELSE [st EXCEPT !.count = st.count + 1,
                                 !.metric = RatAdd(st.metric, ValueOf(score))]

\* for grp in ground_truth.keys() (metrics.py:337-348)
RECURSIVE GroupLoop(_, _, _, _, _, _)
GroupLoop(st, ground_truth, simulation, groups, wt, ct) ==
    IF groups = <<>> THEN st
    ELSE GroupLoop(GroupPass(st, ground_truth, simulation, Head(groups), wt, ct),
                   ground_truth, simulation, Tail(groups), wt, ct)

\* rbo_for_te(ground_truth, simulation, idx, wt, ct); ground_truth holds the
\* table ground_truth[idx]
rbo_for_te(ground_truth, simulation, wt, ct) ==
    IF simulation.shape = "empty" THEN Number(Zero)
    ELSE IF simulation.shape = "lacks idx" THEN Raised("KeyError")
    ELSE LET st == GroupLoop([metric |-> Zero, count |-> 0, raised |-> NoException],
                             ground_truth, simulation.table,
                             KeysInOrder(DOMAIN ground_truth), wt, ct)
         IN  IF st.raised # NoException THEN Raised(st.raised)
             ELSE IF st.count > 0
                  THEN Number(RatDiv(st.metric, Rat(st.count, 1)))
                  ELSE Number(st.metric)

InitRboForTe ==
    /\ rmCall = NoCall
    /\ rmRet = NoReturn
    /\ runner = NoRunner
    /\ bundle = NoBundle
    /\ history = NoHistory
    /\ \E g \in GroupTables, shape \in SimulationShapes, x \in GroupTables,
          wt \in Probabilities, ct \in MinCounts :
          /\ shape # "has idx" => x = <<>>
          /\ mCall = [fn |-> "rbo_for_te", ground_truth |-> g,
                      simulation |-> [shape |-> shape, table |-> x],
                      wt |-> wt, ct |-> ct]
    /\ mRet = Pending

CallRboForTe ==
    /\ mCall.fn = "rbo_for_te"
    /\ mRet = Pending
    /\ mRet' = rbo_for_te(mCall.ground_truth, mCall.simulation, mCall.wt, mCall.ct)
    /\ UNCHANGED <<rmCall, rmRet, runner, bundle, history, mCall>>

NextRboForTe == CallRboForTe

SpecRboForTe == InitRboForTe /\ [][NextRboForTe]_vars


(***************************************************************************)
(* js_divergence (metrics.py:265-322), with check_data_types               *)
(* (metrics.py:32-54) and get_hist_bins (metrics.py:57-76).                *)
(*                                                                         *)
(* The numeric values followed on the continuous path are all equal, or at *)
(* most two in number, for which numpy's 'doane' rule gives one bin.  A    *)
(* divergence that is no rational is kept as the record of the two         *)
(* distributions it is taken of.                                           *)
(***************************************************************************)
\* a value that is no number (a str in the data)
Word == [fin |-> FALSE, v |-> -1]

ContinuousValues == {Finite(1), NaN, Word}

ContinuousRows == [key : Keys, value : {Finite(1), NaN}]

\* check_data_types on one argument: the 'value' column of a DataFrame, the
\* list itself, as an array
AsArray(m) ==
    IF m.shape = "DataFrame" THEN [i \in DOMAIN m.items |-> m.items[i].value]
    ELSE m.items

\* np.isfinite(a) raises TypeError on an array that holds a str
IsFiniteRaises(a) == \E i \in DOMAIN a : a[i] = Word

\* a[np.isfinite(a)], as integers
FiniteValues(a) ==
    LET kept == SelectSeq(a, LAMBDA x : x.fin)
    IN  [i \in DOMAIN kept |-> kept[i].v]

\* get_hist_bins(ground_truth, simulation, method): the bin edges, doubled.
\* No data: one bin [0, 1]; equal data v: one bin [v - 0.5, v + 0.5] (every
\* width estimate is 0); two different values under 'doane' (no estimate for
\* fewer than three values): one bin from the smaller to the larger
get_hist_bins(ground_truth, simulation, method) ==
    LET all_data == ground_truth \o simulation
        lo == CHOOSE x \in Elements(all_data) : \A y \in Elements(all_data) : x <= y
        hi == CHOOSE x \in Elements(all_data) : \A y \in Elements(all_data) : x >= y
    IN  CASE all_data = <<>>                 -> <<0, 2>>
          [] all_data # <<>> /\ lo = hi       -> <<2 * lo - 1, 2 * lo + 1>>
          [] lo # hi /\ Len(all_data) <= 2 /\ method = "doane"
                                              -> <<2 * lo, 2 * hi>>

\* np.histogram(a, bins=bins)[0] for the two edges of one bin
Histogram(a, bins) ==
    <<Len(SelectSeq(a, LAMBDA x : bins[1] <= 2 * x /\ 2 * x <= bins[2]))>>

\* a / a.sum() for an array of counts; 0 / 0 is nan
Normalise(a) ==
    IF Sum(a) = 0 THEN [i \in DOMAIN a |-> [kind |-> "nan"]]
    ELSE [i \in DOMAIN a |-> Number(Rat(a[i], Sum(a)))]

\* metrics.py:313-322: entropy(gt, m) / 2 + entropy(sim, m) / 2 of the
\* normalised counts and their mean m
JsOfCounts(ground_truth, simulation, base) ==
    LET p == Normalise(ground_truth)
        q == Normalise(simulation)
        HasNan(a) == \E i \in DOMAIN a : a[i].kind = "nan"
    IN  IF Len(p) # Len(q) THEN NoneResult
        ELSE IF HasNan(p) \/ HasNan(q) THEN [kind |-> "nan"]
        ELSE IF p = q
             THEN \* every term p * log(p / m) is 0; so is the empty sum
                  Number(Zero)
             ELSE [kind |-> "divergence", of |-> <<p, q>>, base |-> base]

\* the branch of metrics.py:280-294
JsContinuous(ground_truth, simulation, base) ==
    LET g == AsArray(ground_truth)
        x == AsArray(simulation)
    IN  IF IsFiniteRaises(g) \/ IsFiniteRaises(x)
        THEN \* except TypeError (metrics.py:288)
             NoneResult
        ELSE LET bins == get_hist_bins(FiniteValues(g), FiniteValues(x), "doane")
             IN  JsOfCounts(Histogram(FiniteValues(g), bins),
                            Histogram(FiniteValues(x), bins), base)

\* the branch of metrics.py:296-310
JsDiscrete(ground_truth, simulation, base) ==
    IF ground_truth.shape # "DataFrame" \/ simulation.shape # "DataFrame"
    THEN \* ground_truth.value (metrics.py:299)
         Raised("AttributeError")
    ELSE LET df == FillNa(Merge(FiniteRows(ground_truth.items),
                                FiniteRows(simulation.items), "outer"), 0)
         IN  JsOfCounts(ValueGt(df), ValueSim(df), base)

\* js_divergence(ground_truth, simulation, discrete, base)
js_divergence(ground_truth, simulation, discrete, base) ==
    IF \/ simulation.shape = "None"
       \/ Len(simulation.items) = 0
       \/ ground_truth.shape = "None"
       \/ Len(ground_truth.items) = 0
    THEN NoneResult
    ELSE IF ~discrete THEN JsContinuous(ground_truth, simulation, base)
    ELSE JsDiscrete(ground_truth, simulation, base)

\* the calls followed: lists or frames with discrete=False, frames or lists
\* with discrete=True, None on either side
JsCalls ==
    {<<Measurement("list", g), Measurement("list", x), FALSE>> :
        <<g, x>> \in SeqsUpTo(ContinuousValues, MaxRows)
                        \X SeqsUpTo(ContinuousValues, MaxRows)}
    \cup {<<Measurement("DataFrame", g), Measurement("DataFrame", x), FALSE>> :
        <<g, x>> \in SeqsUpTo(ContinuousRows, 1) \X SeqsUpTo(ContinuousRows, 1)}
    \cup {<<Measurement("DataFrame", g), Measurement("DataFrame", x), TRUE>> :
        <<g, x>> \in SeqsUpTo(Rows, MaxRows) \X SeqsUpTo(Rows, MaxRows)}
    \cup {<<Measurement("list", <<Finite(1)>>), Measurement("list", <<Finite(1)>>), TRUE>>}
    \cup {<<NoneMeasurement, Measurement("list", <<Finite(1)>>), d>> : d \in BOOLEAN}
    \cup {<<Measurement("list", <<Finite(1)>>), NoneMeasurement, d>> : d \in BOOLEAN}

InitJs ==
    /\ rmCall = NoCall
    /\ rmRet = NoReturn
    /\ runner = NoRunner
    /\ bundle = NoBundle
    /\ history = NoHistory
    /\ \E call \in JsCalls :
          mCall = [fn |-> "js_divergence", ground_truth |-> call[1],
                   simulation |-> call[2], discrete |-> call[3], base |-> 2]
    /\ mRet = Pending

CallJsDivergence ==
    /\ mCall.fn = "js_divergence"
    /\ mRet = Pending
    /\ mRet' = js_divergence(mCall.ground_truth, mCall.simulation,
                             mCall.discrete, mCall.base)
    /\ UNCHANGED <<rmCall, rmRet, runner, bundle, history, mCall>>

NextJs == CallJsDivergence

SpecJs == InitJs /\ [][NextJs]_vars


(***************************************************************************)
(* kl_divergence_smoothed (metrics.py:185-221).                            *)
(***************************************************************************)
\* the values of alpha followed; 0.01 is the default
Alphas == {Rat(1, 100), Rat(1, 2)}

KlValues == {Finite(1), NaN}

\* an array of integers as an array of floats
Floats(a) == [i \in DOMAIN a |-> Rat(a[i], 1)]

\* scipy.stats.entropy(pk, qk): both normalised to sum 1, then the sum of
\* pk * log(pk / qk); 0 / 0 is nan
entropy(pk, qk) ==
    LET p == [i \in DOMAIN pk |-> RatDiv(pk[i], RatSum(pk))]
        q == [i \in DOMAIN qk |-> RatDiv(qk[i], RatSum(qk))]
    IN  IF Len(pk) # Len(qk) THEN Raised("ValueError")
        ELSE IF RatSum(pk) = Zero \/ RatSum(qk) = Zero THEN
             IF pk = <<>> THEN Number(Zero) ELSE [kind |-> "nan"]
        ELSE IF \E i \in DOMAIN p : p[i] # Zero /\ q[i] = Zero THEN [kind |-> "inf"]
        ELSE IF p = q THEN Number(Zero)
        ELSE [kind |-> "divergence", of |-> <<p, q>>, base |-> "e"]

\* (1 - alpha) * simulation + alpha * np.ones(simulation.shape)
\* (metrics.py:203)
Smoothed(simulation, alpha) ==
    [i \in DOMAIN simulation |->
        RatAdd(RatMul(RatSub(One, alpha), simulation[i]), alpha)]

\* the locals after metrics.py:195-203; np.histogram raises ValueError on
\* data whose range is not finite
KlContinuous(ground_truth, simulation, alpha) ==
    LET g == AsArray(ground_truth)
        x == AsArray(simulation)
    IN  IF \E i \in DOMAIN (g \o x) : ~(g \o x)[i].fin
        THEN [raised |-> "ValueError", ground_truth |-> <<>>, simulation |-> <<>>,
              bound |-> FALSE, smoothed_simulation |-> <<>>]
        ELSE LET bins == get_hist_bins(FiniteValues(g), FiniteValues(x), "auto")
                 sim  == Floats(Histogram(FiniteValues(x), bins))
             IN  [raised |-> NoException,
                  ground_truth |-> Floats(Histogram(FiniteValues(g), bins)),
                  simulation |-> sim,
                  bound |-> TRUE, smoothed_simulation |-> Smoothed(sim, alpha)]

\* the locals after metrics.py:205-215: smoothed_simulation is not assigned
KlDiscrete(ground_truth, simulation) ==
    IF ground_truth.shape # "DataFrame"
    THEN [raised |-> "AttributeError", ground_truth |-> <<>>, simulation |-> <<>>,
          bound |-> FALSE, smoothed_simulation |-> <<>>]
    ELSE LET df == FillNa(Merge(ground_truth.items, simulation.items, "outer"), 0)
         IN  [raised |-> NoException,
              ground_truth |-> Normalise(ValueGt(df)),
              simulation |-> Normalise(ValueSim(df)),
              bound |-> FALSE, smoothed_simulation |-> <<>>]

\* kl_divergence_smoothed(ground_truth, simulation, alpha, discrete)
kl_divergence_smoothed(ground_truth, simulation, alpha, discrete) ==
    LET st == IF ~discrete THEN KlContinuous(ground_truth, simulation, alpha)
              ELSE KlDiscrete(ground_truth, simulation)
    IN  IF st.raised # NoException THEN Raised(st.raised)
        ELSE IF Len(st.ground_truth) = Len(st.simulation)
             THEN IF ~st.bound
                  THEN \* the read of smoothed_simulation (metrics.py:218)
                       Raised("UnboundLocalError")
                  ELSE entropy(st.ground_truth, st.smoothed_simulation)
             ELSE NoneResult

KlCalls ==
    {<<Measurement("list", g), Measurement("list", x), FALSE>> :
        <<g, x>> \in SeqsUpTo(KlValues, MaxRows) \X SeqsUpTo(KlValues, MaxRows)}
    \cup {<<Measurement("DataFrame", g), Measurement("DataFrame", x), TRUE>> :
        <<g, x>> \in SeqsUpTo(Rows, MaxRows) \X SeqsUpTo(Rows, MaxRows)}
    \cup {<<Measurement("list", <<Finite(1)>>), Measurement("list", <<Finite(1)>>), TRUE>>}

InitKl ==
    /\ rmCall = NoCall
    /\ rmRet = NoReturn
    /\ runner = NoRunner
    /\ bundle = NoBundle
    /\ history = NoHistory
    /\ \E call \in KlCalls, alpha \in Alphas :
          mCall = [fn |-> "kl_divergence_smoothed", ground_truth |-> call[1],
                   simulation |-> call[2], alpha |-> alpha, discrete |-> call[3]]
    /\ mRet = Pending

CallKlDivergenceSmoothed ==
    /\ mCall.fn = "kl_divergence_smoothed"
    /\ mRet = Pending
    /\ mRet' = kl_divergence_smoothed(mCall.ground_truth, mCall.simulation,
                                      mCall.alpha, mCall.discrete)
    /\ UNCHANGED <<rmCall, rmRet, runner, bundle, history, mCall>>

NextKl == CallKlDivergenceSmoothed

SpecKl == InitKl /\ [][NextKl]_vars


(***************************************************************************)
(* Claims about run_measurements, checked under SpecRun.                   *)
(***************************************************************************)
\* the measurement types and their implementations (run.py:12-18)
Implementation ==
    [social_activity      |-> "SocialActivityMeasurements",
     information_cascades |-> "InformationCascadeMeasurements",
     social_structure     |-> "SocialStructureMeasurements",
     cross_platform       |-> "CrossPlatformMeasurements",
     multi_platform       |-> "MultiPlatformMeasurements",
     recurrence           |-> "RecurrenceMeasurements",
     persistent_groups    |-> "PersistentGroupsMeasurements"]

KnownTypes == DOMAIN Implementation

\* the collaborator of node (p, m) when the subsetting of p succeeded
OwnCollaborator(p, m) ==
    Collaborator(Implementation[m], p, m,
                 DatasetSubset(rmCall.dataset, p, rmCall.test, "ok"))

Returned == rmCall.called /\ rmRet.raised = NoException

HasNode(d, p, m) == p \in DOMAIN d /\ m \in DOMAIN d[p]

\* C1: when the subsetting of its platform succeeds, a node whose
\* collaborator fails has a null result and a log status naming the phase
\* that failed (instantiation or run), and every other node of a known
\* measurement type has the result and the log its own collaborator's run
\* returned, whatever happens at the other nodes.
C1_FailuresStayAtTheirNode ==
    rmCall.called =>
        \A n \in NodesOf(rmCall.configuration) :
            LET p == n[1]
                m == n[2]
                o == rmCall.oracle.node[n]
            IN  (rmCall.oracle.subset[p] = "ok" /\ m \in KnownTypes) =>
                    /\ rmRet.raised = NoException
                    /\ HasNode(rmRet.results, p, m)
                    /\ HasNode(rmRet.logs, p, m)
                    /\ o = "init_raises" =>
                          /\ rmRet.results[p][m] = None
                          /\ rmRet.logs[p][m].status =
                                "Failed to instantiate measurements object"
                    /\ o = "run_raises" =>
                          /\ rmRet.results[p][m] = None
                          /\ rmRet.logs[p][m].status =
                                "Measurements object failed to run."
                    /\ o = "ok" =>
                          /\ rmRet.results[p][m] = RunResults(OwnCollaborator(p, m))
                          /\ rmRet.logs[p][m] = RunLogs(OwnCollaborator(p, m))

\* a call in which one node fails to instantiate, one fails to run and one
\* succeeds, all of known types on platforms that were subset
C1_Witness ==
    /\ Returned
    /\ \A n \in NodesOf(rmCall.configuration) :
          rmCall.oracle.subset[n[1]] = "ok" /\ n[2] \in KnownTypes
    /\ \A o \in NodeOutcomes :
          \E n \in NodesOf(rmCall.configuration) :
             /\ rmCall.oracle.node[n] = o
             /\ (o = "ok") = (rmRet.results[n[1]][n[2]] # None)

SubsetFailed(p) == rmCall.oracle.subset[p] # "ok"

\* C2: a platform whose subsetting fails has the failure recorded in the
\* returned logs as a platform-level entry, and none of its measurement
\* types is constructed or run.
C2_SubsetFailureSkipsThePlatform ==
    Returned =>
        \A p \in PlatformsOf(rmCall.configuration) :
            SubsetFailed(p) =>
                /\ p \in DOMAIN rmRet.logs
                /\ \E k \in DOMAIN rmRet.logs[p] :
                      rmRet.logs[p][k].status = "Failed to subset " \o p
                /\ \A i \in DOMAIN rmRet.events : rmRet.events[i].platform # p

FailureStatuses == {"Failed to instantiate measurements object",
                    "Measurements object failed to run."}

\* C3: a node whose measurement-type name is not a known one has a null
\* result and a failure log, whatever was processed before it, and no
\* collaborator (necessarily one of another measurement type) is constructed
\* or run for it.
C3_UnknownTypeFails ==
    Returned =>
        \A n \in NodesOf(rmCall.configuration) :
            n[2] \notin KnownTypes =>
                /\ HasNode(rmRet.results, n[1], n[2])
                /\ rmRet.results[n[1]][n[2]] = None
                /\ rmRet.logs[n[1]][n[2]].status \in FailureStatuses
                /\ \A i \in DOMAIN rmRet.events :
                      ~(rmRet.events[i].platform = n[1] /\ rmRet.events[i].type = n[2])

\* C4: whatever fails in subsetting, resolution, construction and run (each
\* failure an instance of a subclass of Exception), run_measurements returns
\* its pair: no exception reaches the caller.
C4_NoExceptionEscapes ==
    rmCall.called => rmRet.raised = NoException

\* a call in which a subsetting, a resolution, a construction and a run fail
C4_Witness ==
    /\ Returned
    /\ \E p \in PlatformsOf(rmCall.configuration) : SubsetFailed(p)
    /\ \E n \in NodesOf(rmCall.configuration) :
          rmRet.logs[n[1]][n[2]].error = "UnboundLocalError"
    /\ \E n \in NodesOf(rmCall.configuration) :
          /\ rmCall.oracle.node[n] = "init_raises"
          /\ rmRet.logs[n[1]][n[2]].error = "CollaboratorError"
    /\ \E n \in NodesOf(rmCall.configuration) :
          /\ rmCall.oracle.node[n] = "run_raises"
          /\ rmRet.logs[n[1]][n[2]].status = "Measurements object failed to run."

\* C5: the returned results and logs have the same key paths: exactly the
\* platforms of the configuration, and under each exactly its measurement
\* types.
C5_SameKeyPaths ==
    Returned =>
        /\ DOMAIN rmRet.results = PlatformsOf(rmCall.configuration)
        /\ DOMAIN rmRet.logs = PlatformsOf(rmCall.configuration)
        /\ \A p \in PlatformsOf(rmCall.configuration) :
              /\ DOMAIN rmRet.results[p] = TypesOf(rmCall.configuration, p)
              /\ DOMAIN rmRet.logs[p] = TypesOf(rmCall.configuration, p)

\* a call over two platforms in which a subsetting fails, a node fails and a
\* node succeeds
C5_Witness ==
    /\ Returned
    /\ Cardinality(DOMAIN rmRet.results) = 2
    /\ \E p \in PlatformsOf(rmCall.configuration) : SubsetFailed(p)
    /\ \E n \in NodesOf(rmCall.configuration) : rmRet.results[n[1]][n[2]] = None
    /\ \E n \in NodesOf(rmCall.configuration) : rmRet.results[n[1]][n[2]] # None


(***************************************************************************)
(* Claims about TaskRunner, checked under SpecTask.                        *)
(***************************************************************************)
RECURSIVE Count(_, _)
Count(seq, x) ==
    IF seq = <<>> THEN 0
    ELSE (IF Head(seq) = x THEN 1 ELSE 0) + Count(Tail(seq), x)

\* C6: the ground truth is obtained once, at construction: no __call__ runs
\* a measurement pass on the ground-truth dataset, each __call__ runs exactly
\* one pass, on the simulation dataset, and every bundle (of __call__ and of
\* get_results) carries the ground-truth results and logs of construction.
C6_GroundTruthOnceAtConstruction ==
    runner.constructed =>
        /\ Count(history.passes, "ground_truth") + history.loads = 1
        /\ Count(history.passes, "simulation") = history.calls
        /\ Len(history.passes) = history.calls + 1 - history.loads
        /\ runner.ground_truth_results = history.at_construction.results
        /\ runner.ground_truth_logs = history.at_construction.logs
        /\ bundle.from # "-" =>
              /\ bundle.ground_truth_results = history.at_construction.results
              /\ bundle.ground_truth_logs = history.at_construction.logs

\* the second __call__ of a TaskRunner built from a raw dataset has returned
C6_Witness ==
    /\ runner.constructed
    /\ runner.ground_truth.kind = "DataFrame"
    /\ history.calls >= 2
    /\ bundle.from = "__call__"
    /\ bundle.ground_truth_results # EmptyDict
    /\ bundle.simulation_results # bundle.ground_truth_results

\* the ground truth is a str object (a name of stored measurements)
IsInstanceOfStr(ground_truth) == ground_truth.kind = "str"

\* C7: a TaskRunner constructed with a str naming stored measurements takes
\* its ground-truth results and logs from load_measurements and runs no
\* measurement pass on the ground truth; only a raw dataset is measured.
C7_PrecomputedGroundTruthIsLoaded ==
    runner.constructed =>
        /\ IsInstanceOfStr(runner.ground_truth) =>
              /\ history.loads = 1
              /\ Count(history.passes, "ground_truth") = 0
              /\ runner.ground_truth_results =
                    load_measurements(runner.ground_truth).results
              /\ runner.ground_truth_logs =
                    load_measurements(runner.ground_truth).logs
        /\ Count(history.passes, "ground_truth") > 0 =>
              runner.ground_truth.kind = "DataFrame"


(***************************************************************************)
(* Claims about rbo_score, checked under SpecRbo.                          *)
(***************************************************************************)
\* rbo_score has returned for a nonempty list compared with itself, both
\* passed as DataFrames
RboOfItself ==
    /\ mCall.fn = "rbo_score"
    /\ mRet # Pending
    /\ mCall.ground_truth.shape # "list"
    /\ mCall.simulation = mCall.ground_truth
    /\ mCall.ground_truth.items # <<>>

\* C8 as claimed: for a nonempty ranked list X and p in (0,1),
\* rbo(X, X, p) = 1.
C8_RboOfItselfIsOne ==
    RboOfItself => mRet = Number(One)

\* C8 as amended: for a nonempty ranked list X of length s passed as a
\* DataFrame and p in (0,1), rbo(X, X, p) is a number below 1: it is
\* (1 - p) times the sum over i = 1..s of p^(i-1) * (distinct entries among
\* the first i of X) / i, which is 1 - p^s when X has no repeated entry and
\* less than that when it has.
C8_RboOfItselfIsBelowOne ==
    RboOfItself =>
        LET X == mCall.ground_truth.items
            p == mCall.p
            top == RatSub(One, RatPow(p, Len(X)))
        IN  /\ mRet.kind = "number"
            /\ RatLess(Zero, ValueOf(mRet))
            /\ RatLess(ValueOf(mRet), One)
            /\ Injective(X) => ValueOf(mRet) = top
            /\ ~Injective(X) => RatLess(ValueOf(mRet), top)

\* rbo of a list of three distinct entities with itself has been computed
C8_Witness ==
    /\ RboOfItself
    /\ Injective(mCall.ground_truth.items)
    /\ Len(mCall.ground_truth.items) = 3
    /\ mCall.p = Rat(19, 20)
    /\ mRet = Number(Rat(1141, 8000))


(***************************************************************************)
(* Claims about the scalar metrics, checked under SpecScalar.              *)
(***************************************************************************)
\* a value that is no number and that float() does not convert
NonNumeric(v) == v.type # "int" /\ v \notin NumericStrings

\* C9: absolute_difference and absolute_percentage_error never raise: when
\* at least one of the two inputs is non-numeric (a str such as "x"
\* included) they return None.
C9_NonNumericGivesNone ==
    (/\ mCall.fn \in ScalarMetrics
     /\ mRet # Pending
     /\ NonNumeric(mCall.ground_truth) \/ NonNumeric(mCall.simulation))
        => mRet = NoneResult


(***************************************************************************)
(* Claims about r2, checked under SpecR2.                                  *)
(***************************************************************************)
\* a sequence of at least two finite numbers, as a plain list or as a
\* DataFrame with one row per key
NumericSequence(x) ==
    /\ x.shape \in {"list", "DataFrame"}
    /\ Len(x.items) >= 2
    /\ x.shape = "list" => \A i \in DOMAIN x.items : x.items[i].fin
    /\ x.shape = "DataFrame" =>
          /\ \A i \in DOMAIN x.items : x.items[i].value.fin
          /\ \A i, j \in DOMAIN x.items :
                x.items[i].key = x.items[j].key => i = j

\* C10: for a numeric sequence X passed as ground truth and as simulation,
\* r2(X, X) is 1, whether X is a DataFrame or a plain list.
C10_R2OfItselfIsOne ==
    (/\ mCall.fn = "r2"
     /\ mRet # Pending
     /\ mCall.join = "inner"
     /\ mCall.simulation = mCall.ground_truth
     /\ NumericSequence(mCall.ground_truth))
        => mRet = Number(One)

(***************************************************************************)
(* Claims about pearson, checked under SpecPearson.                        *)
(***************************************************************************)
\* what a float holds: a number (rational or not), nan or an infinity
IsScalar(r) == r.kind \in {"number", "quotient by sqrt of", "sqrt of", "nan", "inf"}

\* the rows of the join of the two arguments of the call
JoinedRows ==
    join_dfs(mCall.ground_truth.items, mCall.simulation.items,
             mCall.join, mCall.fill_value)

\* the correlation coefficient alone
CoefficientOnly(x, y) ==
    IF Len(x) < 2 THEN Raised("ValueError") ELSE Coefficient(x, y)

\* C11: every metric function returns a single scalar number or null whenever
\* it returns; pearson returns the correlation coefficient alone, a scalar,
\* when at least one row survives the join, and null when none does.
C11_PearsonReturnsAScalarOrNone ==
    (mCall.fn = "pearson" /\ mRet # Pending /\ mRet.kind # "raise") =>
        /\ IsScalar(mRet) \/ mRet = NoneResult
        /\ Len(JoinedRows) > 0 =>
              mRet = CoefficientOnly(ValueGt(JoinedRows), ValueSim(JoinedRows))
        /\ Len(JoinedRows) = 0 => mRet = NoneResult

(***************************************************************************)
(* Claims about rbo_for_te, checked under SpecRboForTe.                    *)
(***************************************************************************)
\* the ground-truth groups with at least ct ranked entities that the
\* simulation has too
MatchingGroups ==
    {g \in DOMAIN mCall.ground_truth :
        /\ Len(mCall.ground_truth[g]) >= mCall.ct
        /\ g \in DOMAIN mCall.simulation.table}

\* rbo of the two entity lists of group g
GroupRbo(g) ==
    ValueOf(RboOfLists(EntityKeys(mCall.ground_truth[g]),
                       EntityKeys(mCall.simulation.table[g]), mCall.wt))

\* the mean of rbo over the matching groups
MeanOfMatchingGroups ==
    LET groups == KeysInOrder(MatchingGroups)
    IN  RatDiv(RatSum([i \in DOMAIN groups |-> GroupRbo(groups[i])]),
               Rat(Len(groups), 1))

\* C12: rbo_for_te returns the mean of rbo over exactly the ground-truth
\* groups that have at least minCount ranked entities and exist in the
\* simulation; a call with at least one such group returns that mean as a
\* number.
C12_GroupedRboIsTheMeanOverMatchingGroups ==
    (/\ mCall.fn = "rbo_for_te"
     /\ mRet # Pending
     /\ mCall.simulation.shape = "has idx"
     /\ MatchingGroups # {}) =>
        mRet = Number(MeanOfMatchingGroups)

(***************************************************************************)
(* Claims about js_divergence, checked under SpecJs.                       *)
(***************************************************************************)
\* the argument is None, or nothing of it is left once its non-finite values
\* are dropped
EmptyAfterFiltering(m) ==
    m.shape = "None" \/ SelectSeq(AsArray(m), LAMBDA x : x.fin) = <<>>

\* C13: js_divergence returns null whenever either side is null or empty,
\* emptiness being judged after the non-finite values are dropped from both
\* sides: an input whose values are all non-finite yields null, not a number
\* or NaN.
C13_JsOfNothingFiniteIsNone ==
    (/\ mCall.fn = "js_divergence"
     /\ mRet # Pending
     /\ EmptyAfterFiltering(mCall.ground_truth) \/ EmptyAfterFiltering(mCall.simulation)) =>
        mRet = NoneResult

(***************************************************************************)
(* Claims about kl_divergence_smoothed, checked under SpecKl.              *)
(***************************************************************************)
\* the two normalised columns of the outer join of the arguments, where
\* both sums are positive
JoinedCounts ==
    FillNa(Merge(mCall.ground_truth.items, mCall.simulation.items, "outer"), 0)

\* the divergence taken of the ground truth and the alpha-smoothed
\* simulation distribution
SmoothedDivergence ==
    LET g == ValueGt(JoinedCounts)
        x == ValueSim(JoinedCounts)
        p == [i \in DOMAIN g |-> Rat(g[i], Sum(g))]
        q == [i \in DOMAIN x |-> Rat(x[i], Sum(x))]
    IN  entropy(p, Smoothed(q, mCall.alpha))

\* C14: kl_divergence_smoothed with discrete=True, on two category-count
\* tables, returns a number or null without raising: the simulation
\* distribution passed to the divergence is the alpha-smoothed one, as on the
\* continuous path.
C14_DiscreteSmoothedKlReturns ==
    (/\ mCall.fn = "kl_divergence_smoothed"
     /\ mRet # Pending
     /\ mCall.discrete
     /\ mCall.ground_truth.shape = "DataFrame"
     /\ mCall.simulation.shape = "DataFrame") =>
        /\ mRet.kind # "raise"
        /\ (Sum(ValueGt(JoinedCounts)) > 0 /\ Sum(ValueSim(JoinedCounts)) > 0) =>
              mRet = SmoothedDivergence


==========================================================================
